---- MODULE Spec2Model ----
(***************************************************************************)
(* Merkle distribution engine and relayer state machine of the             *)
(* lst-rewards-indexer: leaf codec, Merkle builder, proof verifier, the    *)
(* claim store (merkle_claims), the relayer (MerkleRelayer) and the        *)
(* on-chain claim instruction the relayer's transactions target.          *)
(***************************************************************************)
EXTENDS Integers, Sequences, FiniteSets, TLC

\* Number of payout entries of the distribution under study.
NumRecipients == 3

\* RELAYER_BATCH_SIZE used in the model (claims per transaction).
batchSize == 2

\* RELAYER_MAX_RETRIES, default of run-merkle-relayer.ts.
maxRetries == 3

\* The recipients of the first NumSelfClaimers entries may claim on their own.
NumSelfClaimers == 1

\* Leaf indices are 0-based and dense.
Indices == 0 .. (NumRecipients - 1)

NULL == "null"

(***************************************************************************)
(* Leaf codec and hash primitive.  A digest is modelled as the tagged      *)
(* preimage, i.e. the hash is collision-free; byte strings are sequences   *)
(* of fields of fixed width.                                               *)
(***************************************************************************)
DOMAIN_SEPARATOR == "L33_MERKLE_V1"

hash(data) == <<"keccak256", data>>

\* The payout list committed by the authority: wallet i+1 receives i+1 units.
Entries == [k \in 1 .. NumRecipients |-> [wallet |-> k, amount |-> k]]

\* distribution_id of the artifact (opaque 32 bytes in the leaf).
distributionId == 1

constructLeaf(distId, wallet, amount) ==
    hash(<<DOMAIN_SEPARATOR, distId, wallet, amount>>)

IsLeafDigest(d) == Len(d[2]) = 4

\* Buffer.compare on two digests: a total order on digests.  Leaves order
\* by (distribution, wallet, amount); inner nodes order by their children;
\* every leaf digest orders before every inner digest.
RECURSIVE BufferCompare(_, _)
BufferCompare(a, b) ==
    LET x == a[2]
        y == b[2]
    IN  IF IsLeafDigest(a) /\ IsLeafDigest(b)
        THEN IF x[2] # y[2] THEN x[2] - y[2]
             ELSE IF x[3] # y[3] THEN x[3] - y[3]
             ELSE x[4] - y[4]
        ELSE IF IsLeafDigest(a) THEN -1
        ELSE IF IsLeafDigest(b) THEN 1
        ELSE LET c == BufferCompare(x[1], y[1])
             IN  IF c # 0 THEN c ELSE BufferCompare(x[2], y[2])

hashPair(left, right) ==
    IF BufferCompare(left, right) <= 0
    THEN hash(<<left, right>>)
    ELSE hash(<<right, left>>)

(***************************************************************************)
(* Merkle builder (class MerkleTree).  Layers and positions are 1-based    *)
(* sequences; leaf index i of the source is position i + 1.                *)
(***************************************************************************)
\* A level in which the odd node at the end is promoted as it is.
nextLayerPromote(currentLayer) ==
    [k \in 1 .. ((Len(currentLayer) + 1) \div 2) |->
        IF 2 * k <= Len(currentLayer)
        THEN hashPair(currentLayer[2 * k - 1], currentLayer[2 * k])
        ELSE currentLayer[2 * k - 1]]

nextLayer(currentLayer) ==
    [k \in 1 .. ((Len(currentLayer) + 1) \div 2) |->
        IF 2 * k <= Len(currentLayer)
        THEN hashPair(currentLayer[2 * k - 1], currentLayer[2 * k])
        ELSE hashPair(currentLayer[2 * k - 1], currentLayer[2 * k - 1])]

RECURSIVE buildLayersFrom(_)
buildLayersFrom(layers) ==
    IF Len(layers[Len(layers)]) > 1
    THEN buildLayersFrom(Append(layers, nextLayer(layers[Len(layers)])))
    ELSE layers

buildLayers(leaves) == buildLayersFrom(<<leaves>>)

getRoot(layers) == layers[Len(layers)][1]

\* A proof loop that pushes nothing at a level where the node has no sibling.
RECURSIVE getProofFromSkipping(_, _, _)
getProofFromSkipping(layers, i, currentIndex) ==
    IF i >= Len(layers) THEN <<>>
    ELSE LET layer == layers[i]
             isRightNode == currentIndex % 2 = 1
             siblingIndex == IF isRightNode THEN currentIndex - 1
                             ELSE currentIndex + 1
             pushed == IF siblingIndex < Len(layer)
                       THEN <<layer[siblingIndex + 1]>>
                       ELSE <<>>
         IN  pushed \o getProofFromSkipping(layers, i + 1, currentIndex \div 2)

RECURSIVE getProofFrom(_, _, _)
getProofFrom(layers, i, currentIndex) ==
    IF i >= Len(layers) THEN <<>>
    ELSE LET layer == layers[i]
             isRightNode == currentIndex % 2 = 1
             siblingIndex == IF isRightNode THEN currentIndex - 1
                             ELSE currentIndex + 1
             node == IF siblingIndex < Len(layer)
                     THEN layer[siblingIndex + 1]
                     ELSE layer[currentIndex + 1]
         IN  <<node>> \o getProofFrom(layers, i + 1, currentIndex \div 2)

getProof(layers, index) == getProofFrom(layers, 1, index)

RECURSIVE fold(_, _)
fold(current, proof) ==
    IF proof = <<>> THEN current
    ELSE fold(hashPair(current, Head(proof)), Tail(proof))

verify(root, leaf, proof) == fold(leaf, proof) = root

(***************************************************************************)
(* Artifact (buildMerkleData / buildDistributionArtifact).                 *)
(***************************************************************************)
Leaves == [k \in 1 .. NumRecipients |->
              constructLeaf(distributionId, Entries[k].wallet, Entries[k].amount)]

Layers == buildLayers(Leaves)

RECURSIVE SumAmounts(_)
SumAmounts(s) == IF s = <<>> THEN 0 ELSE Head(s).amount + SumAmounts(Tail(s))

artifact ==
    [ distributionId |-> distributionId,
      merkleRoot     |-> getRoot(Layers),
      numRecipients  |-> NumRecipients,
      totalAmount    |-> SumAmounts(Entries),
      proofs         |-> [k \in 1 .. NumRecipients |->
                            [ index  |-> k - 1,
                              wallet |-> Entries[k].wallet,
                              amount |-> Entries[k].amount,
                              proof  |-> getProof(Layers, k - 1) ]] ]

ProofOf(i) == artifact.proofs[i + 1]

(***************************************************************************)
(* Program-derived addresses (getDistributionPda, getClaimPda) and the     *)
(* associated token account address of a recipient.                        *)
(***************************************************************************)
getDistributionPda(distId) == <<"distribution", distId>>

distributionPda == getDistributionPda(artifact.distributionId)

getClaimPda(distribution, index) == <<"claim", distribution, index>>

getAssociatedTokenAddressSync(recipient) == <<"ata", recipient>>

(***************************************************************************)
(* Instructions of a relayer transaction.  All instructions share one      *)
(* record shape; fields an instruction does not use are 0 / <<>>.           *)
(***************************************************************************)
setComputeUnitLimit ==
    [kind |-> "computeUnitLimit", index |-> 0, amount |-> 0, recipient |-> 0,
     claim |-> <<>>, proof |-> <<>>]

setComputeUnitPrice ==
    [kind |-> "computeUnitPrice", index |-> 0, amount |-> 0, recipient |-> 0,
     claim |-> <<>>, proof |-> <<>>]

createAssociatedTokenAccountInstruction(recipient) ==
    [kind |-> "createAta", index |-> 0, amount |-> 0, recipient |-> recipient,
     claim |-> <<>>, proof |-> <<>>]

\* buildClaimInstruction writing a 1-based index into the instruction data.
buildClaimInstructionOneBased(claim, recipient, index, amount, proof) ==
    [kind |-> "claim", index |-> index + 1, amount |-> amount,
     recipient |-> recipient, claim |-> claim, proof |-> proof]

buildClaimInstruction(claim, recipient, index, amount, proof) ==
    [kind |-> "claim", index |-> index, amount |-> amount,
     recipient |-> recipient, claim |-> claim, proof |-> proof]

(***************************************************************************)
(* The ledger.  merkleRoot is the root stored in the distribution account, *)
(* accounts is the set of existing account addresses (claim                *)
(* markers and token accounts), vault the vault balance, balance the       *)
(* token balance of every wallet.  transferCount and transfers record the  *)
(* vault-to-recipient transfers that were executed.                        *)
(***************************************************************************)
\* Indices a claim instruction may name: the committed ones and one beyond.
IndexSpace == 0 .. NumRecipients

\* Wallets: the committed recipients and one wallet that is not committed.
Wallets == 1 .. (NumRecipients + 1)

\* Amounts a claim instruction may name.
Amounts == 1 .. (NumRecipients + 1)

Ok(c) == [err |-> "none", chain |-> c]

Err(c, e) == [err |-> e, chain |-> c]

\* claim(index, amount, proof) of the verifier contract: rebuild the leaf,
\* fold the proof against the stored root, create the uniqueness marker,
\* transfer amount from the vault to the recipient's token account.
Claim(c, ix) ==
    LET leaf == constructLeaf(distributionId, ix.recipient, ix.amount)
        marker == getClaimPda(distributionPda, ix.index)
        ata == getAssociatedTokenAddressSync(ix.recipient)
    IN  IF ix.claim # marker THEN Err(c, "ConstraintSeeds")
        ELSE IF ~verify(c.merkleRoot, leaf, ix.proof)
        THEN Err(c, "ProofInvalid")
        ELSE IF marker \in c.accounts THEN Err(c, "AlreadyClaimed")
        ELSE IF ata \notin c.accounts THEN Err(c, "AccountNotInitialized")
        ELSE IF c.vault < ix.amount THEN Err(c, "InsufficientFunds")
        ELSE Ok([c EXCEPT
                !.accounts = @ \cup {marker},
                !.vault = @ - ix.amount,
                !.balance[ix.recipient] = @ + ix.amount,
                !.transferCount[ix.index] = @ + 1,
                !.transfers = @ \cup {<<ix.index, ix.recipient, ix.amount>>}])

\* The associated-token-account program's create instruction fails when
\* the account already exists.
CreateAta(c, ix) ==
    LET ata == getAssociatedTokenAddressSync(ix.recipient)
    IN  IF ata \in c.accounts THEN Err(c, "AccountAlreadyExists")
        ELSE Ok([c EXCEPT !.accounts = @ \cup {ata}])

ExecInstruction(c, ix) ==
    IF ix.kind = "claim" THEN Claim(c, ix)
    ELSE IF ix.kind = "createAta" THEN CreateAta(c, ix)
    ELSE Ok(c)

RECURSIVE ExecInstructions(_, _)
ExecInstructions(c, ixs) ==
    IF ixs = <<>> THEN Ok(c)
    ELSE LET r == ExecInstruction(c, Head(ixs))
         IN  IF r.err # "none" THEN r
             ELSE ExecInstructions(r.chain, Tail(ixs))

\* A transaction is atomic: it takes effect only if every instruction does.
ExecTransaction(c, ixs) ==
    LET r == ExecInstructions(c, ixs)
    IN  IF r.err = "none" THEN r ELSE Err(c, r.err)

getAccountInfo(c, address) == address \in c.accounts

(***************************************************************************)
(* Claim store: table merkle_claims of one distribution, keyed by          *)
(* leaf_index (PRIMARY KEY (distribution_id, leaf_index)).  NOW() is the   *)
(* number of writes made to the row so far, 0 standing for SQL NULL.       *)
(***************************************************************************)
NewClaimRow(proof) ==
    [ wallet |-> proof.wallet, amount |-> proof.amount, status |-> "pending",
      tx_signature |-> 0, attempts |-> 0, last_attempt |-> 0,
      confirmed_at |-> 0, error_message |-> NULL ]

\* An INSERT that overwrites the row on conflict instead of doing nothing.
InsertClaimUpsert(table, proof) ==
    [i \in DOMAIN table \cup {proof.index} |->
        IF i = proof.index THEN NewClaimRow(proof) ELSE table[i]]

\* INSERT ... ON CONFLICT (distribution_id, leaf_index) DO NOTHING
InsertClaim(table, proof) ==
    IF proof.index \in DOMAIN table THEN table
    ELSE [i \in DOMAIN table \cup {proof.index} |->
            IF i = proof.index THEN NewClaimRow(proof) ELSE table[i]]

\* The UPDATE of updateClaimStatus; txSignature 0 is null.
updateClaimStatus(table, index, status, txSignature, errorMessage) ==
    IF index \notin DOMAIN table THEN table
    ELSE [table EXCEPT ![index] =
            [@ EXCEPT
              !.status = status,
              !.tx_signature = IF txSignature # 0 THEN txSignature ELSE @,
              !.attempts = @ + 1,
              !.last_attempt = table[index].attempts + 1,
              !.confirmed_at = IF status = "confirmed"
                               THEN table[index].attempts + 1 ELSE @,
              !.error_message = errorMessage]]

\* The SELECT without its attempts < $2 condition.
PendingIndicesUncapped(table) ==
    {i \in DOMAIN table : table[i].status \in {"pending", "failed"}}

\* The SELECT of getPendingClaims, then the filter over artifact.proofs.
PendingIndices(table) ==
    {i \in DOMAIN table : table[i].status \in {"pending", "failed"}
                          /\ table[i].attempts < maxRetries}

getPendingClaims(table) ==
    LET pendingIndices == PendingIndices(table)
    IN  SelectSeq(artifact.proofs, LAMBDA proof : proof.index \in pendingIndices)

\* SELECT COUNT(*) ... WHERE status NOT IN ('confirmed')
countUnconfirmed(table) ==
    Cardinality({i \in DOMAIN table : table[i].status # "confirmed"})

(***************************************************************************)
(* State.                                                                  *)
(*   merkle_claims  the claim store of the distribution                    *)
(*   distStatus     merkle_distributions.status of the distribution        *)
(*   chain          the ledger                                             *)
(*   run            per relayer process: its position in main /            *)
(*                  processDistribution / processBatch and its locals      *)
(***************************************************************************)
VARIABLES merkle_claims, distStatus, chain, run, call

vars == <<merkle_claims, distStatus, chain, run, call>>

\* No pure function is under study.
NoCall == [op |-> "none"]

Workers == {1}

EmptyTable == [i \in {} |-> 0]

Min(a, b) == IF a < b THEN a ELSE b

\* Locals of a relayer process that is not running.
IdleRun ==
    [ pc |-> "idle", pendingClaims |-> <<>>, i |-> 0, k |-> 0,
      instructions |-> <<>>, claimsToProcess |-> <<>>, attempts |-> 0,
      lastError |-> NULL, signature |-> 0,
      processed |-> 0, failed |-> 0, skipped |-> 0,
      \* bookkeeping of the run, not program state:
      seenClaimed |-> {},      \* indices whose marker this batch found on-chain
      ataMissing |-> {},       \* indices whose token account this batch found missing
      attemptsBefore |-> <<>>, \* attempts of every row when the pass began
      rowsBefore |-> <<>>,     \* the claim store when the pass began
      markersBefore |-> {},    \* indices claimed on-chain when the pass began
      clean |-> TRUE,          \* no RPC call of the pass has thrown
      broadcasts |-> 0 ]       \* sendAndConfirmTransaction calls of the pass

InitChain(atas) ==
    [ merkleRoot |-> artifact.merkleRoot,
      accounts |-> atas,
      vault |-> artifact.totalAmount,
      balance |-> [w \in Wallets |-> 0],
      transferCount |-> [i \in IndexSpace |-> 0],
      transfers |-> {} ]

Init ==
    /\ merkle_claims = EmptyTable
    /\ distStatus = "active"
    /\ chain = InitChain({getAssociatedTokenAddressSync(Entries[NumRecipients].wallet)})
    /\ run = [w \in Workers |-> IdleRun]
    /\ call = NoCall

Marked(c) == {i \in IndexSpace : getClaimPda(distributionPda, i) \in c.accounts}

(***************************************************************************)
(* Control flow of processDistribution and processBatch.                   *)
(***************************************************************************)
\* batch = pendingClaims.slice(i, i + batchSize)
BatchOf(me) ==
    SubSeq(me.pendingClaims, me.i + 1,
           Min(me.i + batchSize, Len(me.pendingClaims)))

\* Head of the batch loop of processDistribution at offset i; entering
\* processBatch pushes the two compute budget instructions.
LoopBatches(me, i) ==
    LET base == [me EXCEPT !.i = i, !.k = 1, !.claimsToProcess = <<>>,
                           !.attempts = 0, !.lastError = NULL,
                           !.signature = 0, !.seenClaimed = {},
                           !.ataMissing = {}]
    IN  IF i < Len(me.pendingClaims)
        THEN [base EXCEPT !.pc = "prepClaim",
                          !.instructions =
                              <<setComputeUnitLimit, setComputeUnitPrice>>]
        ELSE [base EXCEPT !.pc = "closure", !.instructions = <<>>]

\* processBatch returned {processed, failed, skipped}.
BatchReturns(me, p, f, s) ==
    LoopBatches([me EXCEPT !.processed = @ + p, !.failed = @ + f,
                           !.skipped = @ + s], me.i + batchSize)

\* A catch that counts the batch failed and leaves the batch loop.
BatchThrowsStops(me) ==
    LoopBatches([me EXCEPT !.failed = @ + Len(BatchOf(me)), !.clean = FALSE],
                Len(me.pendingClaims))

\* processBatch threw: the catch of processDistribution counts the batch failed.
BatchThrows(me) ==
    LoopBatches([me EXCEPT !.failed = @ + Len(BatchOf(me)), !.clean = FALSE],
                me.i + batchSize)

\* A preparation loop after which the transaction is built and sent without
\* the claims being marked submitted.
LoopPrepUnmarked(me, k) ==
    IF k <= Len(BatchOf(me)) THEN [me EXCEPT !.pc = "prepClaim", !.k = k]
    ELSE IF me.claimsToProcess = <<>>
    THEN BatchReturns(me, 0, 0, Len(BatchOf(me)))
    ELSE [me EXCEPT !.pc = "blockhash", !.k = 0]

\* Head of the preparation loop of processBatch at position k, and what
\* follows the loop: return when nothing is left, else mark submitted.
LoopPrep(me, k) ==
    IF k <= Len(BatchOf(me)) THEN [me EXCEPT !.pc = "prepClaim", !.k = k]
    ELSE IF me.claimsToProcess = <<>>
    THEN BatchReturns(me, 0, 0, Len(BatchOf(me)))
    ELSE [me EXCEPT !.pc = "markSubmitted", !.k = 1]

\* The signature of the batch transaction (one per set of claims it carries).
Signature(me) == Head(me.claimsToProcess).index + 1

\* catch of the broadcast loop (attempts already counts the broadcast that
\* threw): remember the error, then retry or leave the loop.
SendCatch(me, error) ==
    [me EXCEPT !.lastError = error, !.k = 1,
               !.pc = IF me.attempts < maxRetries THEN "send" ELSE "markFailed"]

(***************************************************************************)
(* main of run-merkle-relayer.ts: seed, process, close.                    *)
(***************************************************************************)
StartRun(w) ==
    /\ run[w].pc = "idle"
    /\ run' = [run EXCEPT ![w] = [IdleRun EXCEPT !.pc = "seed", !.k = 1]]
    /\ UNCHANGED <<call, merkle_claims, distStatus, chain>>

\* One iteration of initializeClaimsFromArtifact.
SeedInsert(w) ==
    LET me == run[w]
    IN  /\ me.pc = "seed"
        /\ merkle_claims' = InsertClaim(merkle_claims, artifact.proofs[me.k])
        /\ run' = [run EXCEPT ![w] =
                      IF me.k < Len(artifact.proofs)
                      THEN [me EXCEPT !.k = @ + 1]
                      ELSE [me EXCEPT !.pc = "getPending", !.k = 0]]
        /\ UNCHANGED <<call, distStatus, chain>>

\* processDistribution up to the batch loop.
GetPendingClaims(w) ==
    LET me == run[w]
        pendingClaims == getPendingClaims(merkle_claims)
        started == [me EXCEPT
                      !.pendingClaims = pendingClaims,
                      !.attemptsBefore =
                          [i \in DOMAIN merkle_claims |-> merkle_claims[i].attempts],
                      !.rowsBefore = merkle_claims,
                      !.markersBefore = Marked(chain)]
    IN  /\ me.pc = "getPending"
        /\ run' = [run EXCEPT ![w] = LoopBatches(started, 0)]
        /\ UNCHANGED <<call, merkle_claims, distStatus, chain>>

(***************************************************************************)
(* processBatch.                                                           *)
(***************************************************************************)
\* getAccountInfo(claimPda): is the claim already processed on-chain?
PrepClaimAccount(w) ==
    LET me == run[w]
        claim == BatchOf(me)[me.k]
        claimPda == getClaimPda(distributionPda, claim.index)
    IN  /\ me.pc = "prepClaim"
        /\ run' = [run EXCEPT ![w] =
                      IF getAccountInfo(chain, claimPda)
                      THEN [me EXCEPT !.pc = "prepConfirm",
                                      !.seenClaimed = @ \cup {claim.index}]
                      ELSE [me EXCEPT !.pc = "prepAta"]]
        /\ UNCHANGED <<call, merkle_claims, distStatus, chain>>

\* The already-claimed branch without its continue: the claim is marked
\* confirmed and then prepared like an unclaimed one.
PrepConfirmFallsThrough(w) ==
    LET me == run[w]
        claim == BatchOf(me)[me.k]
    IN  /\ me.pc = "prepConfirm"
        /\ merkle_claims' =
              updateClaimStatus(merkle_claims, claim.index, "confirmed", 0, NULL)
        /\ run' = [run EXCEPT ![w] = [me EXCEPT !.pc = "prepAta"]]
        /\ UNCHANGED <<call, distStatus, chain>>

\* Already claimed: updateClaimStatus(confirmed, null); continue.
PrepConfirm(w) ==
    LET me == run[w]
        claim == BatchOf(me)[me.k]
    IN  /\ me.pc = "prepConfirm"
        /\ merkle_claims' =
              updateClaimStatus(merkle_claims, claim.index, "confirmed", 0, NULL)
        /\ run' = [run EXCEPT ![w] = LoopPrep(me, me.k + 1)]
        /\ UNCHANGED <<call, distStatus, chain>>

\* A preparation step that pushes the create-account instruction after the
\* claim instruction.
PrepAtaCreateAfter(w) ==
    LET me == run[w]
        claim == BatchOf(me)[me.k]
        claimPda == getClaimPda(distributionPda, claim.index)
        recipientAta == getAssociatedTokenAddressSync(claim.wallet)
        ataInfo == getAccountInfo(chain, recipientAta)
        withClaim == Append(me.instructions,
                            buildClaimInstruction(claimPda, claim.wallet,
                                claim.index, claim.amount, claim.proof))
        pushed == [me EXCEPT
                     !.instructions =
                         IF ~ataInfo
                         THEN Append(withClaim,
                                  createAssociatedTokenAccountInstruction(claim.wallet))
                         ELSE withClaim,
                     !.claimsToProcess = Append(@, claim),
                     !.ataMissing = IF ~ataInfo THEN @ \cup {claim.index} ELSE @]
    IN  /\ me.pc = "prepAta"
        /\ run' = [run EXCEPT ![w] = LoopPrep(pushed, me.k + 1)]
        /\ UNCHANGED <<call, merkle_claims, distStatus, chain>>

\* getAccountInfo(recipientAta), then the instructions of the claim.
PrepAta(w) ==
    LET me == run[w]
        claim == BatchOf(me)[me.k]
        claimPda == getClaimPda(distributionPda, claim.index)
        recipientAta == getAssociatedTokenAddressSync(claim.wallet)
        ataInfo == getAccountInfo(chain, recipientAta)
        withAta == IF ~ataInfo
                   THEN Append(me.instructions,
                               createAssociatedTokenAccountInstruction(claim.wallet))
                   ELSE me.instructions
        pushed == [me EXCEPT
                     !.instructions =
                         Append(withAta,
                                buildClaimInstruction(claimPda, claim.wallet,
                                    claim.index, claim.amount, claim.proof)),
                     !.claimsToProcess = Append(@, claim),
                     !.ataMissing = IF ~ataInfo THEN @ \cup {claim.index} ELSE @]
    IN  /\ me.pc = "prepAta"
        /\ run' = [run EXCEPT ![w] = LoopPrep(pushed, me.k + 1)]
        /\ UNCHANGED <<call, merkle_claims, distStatus, chain>>

\* An RPC call of processBatch (getAccountInfo, getLatestBlockhash) throws.
RpcThrows(w) ==
    LET me == run[w]
    IN  /\ me.pc \in {"prepClaim", "prepAta", "blockhash"}
        /\ run' = [run EXCEPT ![w] = BatchThrows(me)]
        /\ UNCHANGED <<call, merkle_claims, distStatus, chain>>

\* Mark as submitted, one claim of claimsToProcess per step.
MarkSubmitted(w) ==
    LET me == run[w]
        claim == me.claimsToProcess[me.k]
    IN  /\ me.pc = "markSubmitted"
        /\ merkle_claims' =
              updateClaimStatus(merkle_claims, claim.index, "submitted", 0, NULL)
        /\ run' = [run EXCEPT ![w] =
                      IF me.k < Len(me.claimsToProcess)
                      THEN [me EXCEPT !.k = @ + 1]
                      ELSE [me EXCEPT !.pc = "blockhash", !.k = 0]]
        /\ UNCHANGED <<call, distStatus, chain>>

GetLatestBlockhash(w) ==
    LET me == run[w]
    IN  /\ me.pc = "blockhash"
        /\ run' = [run EXCEPT ![w] = [me EXCEPT !.pc = "send", !.attempts = 0]]
        /\ UNCHANGED <<call, merkle_claims, distStatus, chain>>

\* sendAndConfirmTransaction returns a signature: the transaction executed.
SendConfirmed(w) ==
    LET me == run[w]
        r == ExecTransaction(chain, me.instructions)
    IN  /\ me.pc = "send"
        /\ r.err = "none"
        /\ chain' = r.chain
        /\ run' = [run EXCEPT ![w] =
                      [me EXCEPT !.attempts = @ + 1, !.broadcasts = @ + 1,
                                 !.signature = Signature(me),
                                 !.pc = "markConfirmed", !.k = 1]]
        /\ UNCHANGED <<call, merkle_claims, distStatus>>

\* The transaction executed but its confirmation never reached the relayer.
SendLandsUnconfirmed(w) ==
    LET me == run[w]
        r == ExecTransaction(chain, me.instructions)
    IN  /\ me.pc = "send"
        /\ r.err = "none"
        /\ chain' = r.chain
        /\ run' = [run EXCEPT ![w] =
                      SendCatch([me EXCEPT !.attempts = @ + 1,
                                           !.broadcasts = @ + 1],
                                "TransportFailure")]
        /\ UNCHANGED <<call, merkle_claims, distStatus>>

\* The transaction did not execute: transport failure, or an instruction failed.
SendFails(w) ==
    LET me == run[w]
        r == ExecTransaction(chain, me.instructions)
    IN  /\ me.pc = "send"
        /\ run' = [run EXCEPT ![w] =
                      SendCatch([me EXCEPT !.attempts = @ + 1,
                                           !.broadcasts = @ + 1],
                                IF r.err = "none" THEN "TransportFailure"
                                ELSE r.err)]
        /\ UNCHANGED <<call, merkle_claims, distStatus, chain>>

\* Update all claims in batch as confirmed, one per step, then return.
MarkConfirmed(w) ==
    LET me == run[w]
        claim == me.claimsToProcess[me.k]
        n == Len(me.claimsToProcess)
    IN  /\ me.pc = "markConfirmed"
        /\ merkle_claims' =
              updateClaimStatus(merkle_claims, claim.index, "confirmed",
                                me.signature, NULL)
        /\ run' = [run EXCEPT ![w] =
                      IF me.k < n THEN [me EXCEPT !.k = @ + 1]
                      ELSE BatchReturns(me, n, 0, Len(BatchOf(me)) - n)]
        /\ UNCHANGED <<call, distStatus, chain>>

\* All retries failed: mark every claim of the batch failed, then return.
MarkFailed(w) ==
    LET me == run[w]
        claim == me.claimsToProcess[me.k]
        n == Len(me.claimsToProcess)
    IN  /\ me.pc = "markFailed"
        /\ merkle_claims' =
              updateClaimStatus(merkle_claims, claim.index, "failed", 0,
                                me.lastError)
        /\ run' = [run EXCEPT ![w] =
                      IF me.k < n THEN [me EXCEPT !.k = @ + 1]
                      ELSE BatchReturns(me, 0, n, Len(BatchOf(me)) - n)]
        /\ UNCHANGED <<call, distStatus, chain>>

(***************************************************************************)
(* main after processDistribution: update distribution status if complete. *)
(***************************************************************************)
Closure(w) ==
    LET me == run[w]
    IN  /\ me.pc = "closure"
        /\ run' = [run EXCEPT ![w] =
                      IF (me.processed > 0 \/ me.skipped > 0)
                         /\ countUnconfirmed(merkle_claims) = 0
                      THEN [me EXCEPT !.pc = "complete"]
                      ELSE IdleRun]
        /\ UNCHANGED <<call, merkle_claims, distStatus, chain>>

CompleteDistribution(w) ==
    /\ run[w].pc = "complete"
    /\ distStatus' = "completed"
    /\ run' = [run EXCEPT ![w] = IdleRun]
    /\ UNCHANGED <<call, merkle_claims, chain>>

\* The relayer process is killed.
Crash(w) ==
    /\ run[w].pc \notin {"idle"}
    /\ run' = [run EXCEPT ![w] = IdleRun]
    /\ UNCHANGED <<call, merkle_claims, distStatus, chain>>

(***************************************************************************)
(* Environment: a recipient claims its own entry, paying for its account.  *)
(***************************************************************************)
RecipientClaims(i) ==
    LET p == ProofOf(i)
        ata == getAssociatedTokenAddressSync(p.wallet)
        ixs == (IF ata \in chain.accounts THEN <<>>
                ELSE <<createAssociatedTokenAccountInstruction(p.wallet)>>)
               \o <<[kind |-> "claim", index |-> i, amount |-> p.amount,
                     recipient |-> p.wallet, proof |-> p.proof,
                     claim |-> getClaimPda(distributionPda, i)]>>
        r == ExecTransaction(chain, ixs)
    IN  /\ r.err = "none"
        /\ chain' = r.chain
        /\ UNCHANGED <<call, merkle_claims, distStatus, run>>

Next ==
    \/ \E w \in Workers :
          \/ StartRun(w) \/ SeedInsert(w) \/ GetPendingClaims(w)
          \/ PrepClaimAccount(w) \/ PrepConfirm(w) \/ PrepAta(w)
          \/ RpcThrows(w) \/ MarkSubmitted(w) \/ GetLatestBlockhash(w)
          \/ SendConfirmed(w) \/ SendLandsUnconfirmed(w) \/ SendFails(w)
          \/ MarkConfirmed(w) \/ MarkFailed(w)
          \/ Closure(w) \/ CompleteDistribution(w) \/ Crash(w)
    \/ \E i \in 0 .. (NumSelfClaimers - 1) : RecipientClaims(i)

Spec == Init /\ [][Next]_vars

(***************************************************************************)
(* The persistent store fails: a pool.query call throws.                   *)
(***************************************************************************)
\* The INSERT of initializeClaimsFromArtifact throws; its catch skips the row.
SeedInsertThrows(w) ==
    LET me == run[w]
    IN  /\ me.pc = "seed"
        /\ run' = [run EXCEPT ![w] =
                      IF me.k < Len(artifact.proofs)
                      THEN [me EXCEPT !.k = @ + 1]
                      ELSE [me EXCEPT !.pc = "getPending", !.k = 0]]
        /\ UNCHANGED <<call, merkle_claims, distStatus, chain>>

\* A query of main or of getPendingClaims throws: main's catch exits.
MainQueryThrows(w) ==
    /\ run[w].pc \in {"getPending", "closure", "complete"}
    /\ run' = [run EXCEPT ![w] = IdleRun]
    /\ UNCHANGED <<call, merkle_claims, distStatus, chain>>

\* updateClaimStatus throws outside the broadcast loop: processBatch throws.
UpdateThrows(w) ==
    LET me == run[w]
    IN  /\ me.pc \in {"prepConfirm", "markSubmitted", "markFailed"}
        /\ run' = [run EXCEPT ![w] = BatchThrows(me)]
        /\ UNCHANGED <<call, merkle_claims, distStatus, chain>>

\* updateClaimStatus throws while the batch is being marked confirmed: the
\* throw is inside the try of the broadcast loop, so its catch handles it.
MarkConfirmedThrows(w) ==
    LET me == run[w]
    IN  /\ me.pc = "markConfirmed"
        /\ run' = [run EXCEPT ![w] =
                      SendCatch([me EXCEPT !.clean = FALSE], "StoreError")]
        /\ UNCHANGED <<call, merkle_claims, distStatus, chain>>

NextStoreFault ==
    \/ Next
    \/ \E w \in Workers :
          \/ SeedInsertThrows(w) \/ MainQueryThrows(w)
          \/ UpdateThrows(w) \/ MarkConfirmedThrows(w)

SpecStoreFault == Init /\ [][NextStoreFault]_vars

(***************************************************************************)
(* An untrusted relayer talking to the verifier contract directly: it      *)
(* chooses the claim account, index, amount, recipient and proof freely.   *)
(***************************************************************************)
\* Every node of the committed tree.
TreeNodes == UNION {{Layers[l][k] : k \in 1 .. Len(Layers[l])} : l \in 1 .. Len(Layers)}

\* Proofs the relayer may present: node sequences up to the tree's depth.
ProofSpace == UNION {[1 .. n -> TreeNodes] : n \in 0 .. (Len(Layers) - 1)}

RelayerSubmitsClaim ==
    \E index \in IndexSpace, marker \in {0, 1}, amount \in Amounts,
       recipient \in Wallets, proof \in ProofSpace :
        LET ix == buildClaimInstruction(
                      getClaimPda(distributionPda, (index + marker) % (NumRecipients + 1)),
                      recipient, index, amount, proof)
            r == ExecTransaction(chain, <<ix>>)
        IN  /\ r.err = "none"
            /\ chain' = r.chain
            /\ UNCHANGED <<call, merkle_claims, distStatus, run>>

RelayerCreatesAta ==
    \E recipient \in Wallets :
        LET r == ExecTransaction(chain,
                    <<createAssociatedTokenAccountInstruction(recipient)>>)
        IN  /\ r.err = "none"
            /\ chain' = r.chain
            /\ UNCHANGED <<call, merkle_claims, distStatus, run>>

NextUntrusted == RelayerSubmitsClaim \/ RelayerCreatesAta

SpecUntrusted == Init /\ [][NextUntrusted]_vars

(***************************************************************************)
(* Properties.                                                             *)
(***************************************************************************)
Row(i) == merkle_claims[i]

IndicesOf(claims) == {claims[j].index : j \in 1 .. Len(claims)}

ClaimIxs(me) ==
    {me.instructions[j] : j \in {n \in 1 .. Len(me.instructions) :
                                    me.instructions[n].kind = "claim"}}

\* The pass has just read its pending claims and nothing was written since.
JustQueried(me) ==
    \/ me.pc = "prepClaim" /\ me.i = 0 /\ me.k = 1
    \/ me.pc = "closure" /\ me.pendingClaims = <<>>

\* C1: the vault-to-recipient transfer of an index happens at most once:
\* a transfer leaves the uniqueness marker behind, and every claim
\* instruction the relayer holds for a marker that exists fails with
\* AlreadyClaimed, so the transaction carrying it moves no funds.
C1_TransferAtMostOnce ==
    /\ \A i \in IndexSpace :
          /\ chain.transferCount[i] <= 1
          /\ chain.transferCount[i] = 1 => i \in Marked(chain)
    /\ \A w \in Workers : \A ix \in ClaimIxs(run[w]) :
          ix.claim \in chain.accounts =>
              /\ Claim(chain, ix) = Err(chain, "AlreadyClaimed")
              /\ ExecTransaction(chain, run[w].instructions).err # "none"

\* C1 witness: the relayer is about to broadcast again a transaction whose
\* claim was already paid on-chain (its confirmation was lost).
C1_Witness ==
    \E w \in Workers :
        /\ run[w].pc = "send"
        /\ run[w].attempts >= 1
        /\ \E ix \in ClaimIxs(run[w]) :
              ix.claim \in chain.accounts /\ chain.transferCount[ix.index] = 1

\* C2: every transfer the contract accepts pays a committed (recipient,
\* amount) entry, and each committed entry is paid at most once, whatever
\* index, amount, recipient and proof the relayer presents.
C2_RelayerCannotSteal ==
    /\ \A t \in chain.transfers :
          \E k \in 1 .. NumRecipients :
              Entries[k].wallet = t[2] /\ Entries[k].amount = t[3]
    /\ \A k \in 1 .. NumRecipients :
          Cardinality({t \in chain.transfers :
                          t[2] = Entries[k].wallet /\ t[3] = Entries[k].amount}) <= 1
    /\ \A i \in IndexSpace : chain.transferCount[i] <= 1

\* C3: once a claim record is confirmed no step changes its state.
C3_ConfirmedIsTerminal ==
    [][\A i \in DOMAIN merkle_claims :
          Row(i).status = "confirmed" => merkle_claims'[i].status = "confirmed"]_vars

\* C4: a claim whose marker the batch found on-chain is marked confirmed
\* and gets no claim instruction in the batch's transaction; a batch whose
\* claims are all claimed already never reaches the broadcast.
C4_ReconcileBeforeAssembly ==
    \A w \in Workers :
        LET me == run[w]
            reconciled == IF me.pc = "prepConfirm"
                          THEN me.seenClaimed \ {BatchOf(me)[me.k].index}
                          ELSE me.seenClaimed
        IN  /\ \A ix \in ClaimIxs(me) : ix.index \notin me.seenClaimed
            /\ IndicesOf(me.claimsToProcess) \cap me.seenClaimed = {}
            /\ \A i \in reconciled : Row(i).status = "confirmed"
            /\ me.pc \in {"markSubmitted", "blockhash", "send",
                          "markConfirmed", "markFailed"}
                  => /\ me.claimsToProcess # <<>>
                     /\ ~(IndicesOf(BatchOf(me)) \subseteq me.seenClaimed)

\* C4 witness: a batch reaches the broadcast after one of its claims was
\* found claimed on-chain and dropped.
C4_Witness ==
    \E w \in Workers : run[w].pc = "send" /\ run[w].seenClaimed # {}

\* C5: a pass in which no call threw leaves confirmed every record whose
\* uniqueness marker existed when the pass began.
C5_LedgerTruthWins ==
    \A w \in Workers :
        run[w].pc = "closure" /\ run[w].clean
            => \A i \in run[w].markersBefore \cap DOMAIN merkle_claims :
                  Row(i).status = "confirmed"

\* C6: a claim left in state submitted is among the claims the next pass
\* takes up.
C6_SubmittedTakenUpAgain ==
    \A w \in Workers :
        JustQueried(run[w])
            => \A i \in DOMAIN merkle_claims :
                  Row(i).status = "submitted"
                      => i \in IndicesOf(run[w].pendingClaims)

\* C7: the count of unconfirmed claims is 0 only if every index is claimed
\* on-chain, and a pass without a throw that began with every index
\* claimed on-chain ends with the count at 0.
C7_CountZeroIffAllClaimed ==
    \A w \in Workers :
        /\ run[w].pc = "complete" => Indices \subseteq Marked(chain)
        /\ run[w].pc = "closure" /\ run[w].clean
              /\ Indices \subseteq run[w].markersBefore
              => countUnconfirmed(merkle_claims) = 0

\* C8: the pending claims a pass reads are exactly the rows in state pending
\* or failed with attempts < maxRetries, in ascending index order; a claim
\* instruction is only ever built for such a row.
C8_NextPendingExact ==
    \A w \in Workers :
        LET me == run[w]
        IN  /\ JustQueried(me) =>
                /\ IndicesOf(me.pendingClaims) =
                      {i \in DOMAIN merkle_claims :
                          /\ Row(i).status = "pending" \/ Row(i).status = "failed"
                          /\ Row(i).attempts < maxRetries}
                /\ \A a, b \in 1 .. Len(me.pendingClaims) :
                      a < b => me.pendingClaims[a].index < me.pendingClaims[b].index
            /\ me.pc \in {"prepClaim", "prepConfirm", "prepAta"} =>
                  \A ix \in ClaimIxs(me) :
                      /\ Row(ix.index).status \in {"pending", "failed"}
                      /\ Row(ix.index).attempts < maxRetries

\* C8 witness: a pass reads its pending claims while one record is failed
\* with its attempts used up and another is still eligible.
C8_Witness ==
    \E w \in Workers :
        /\ run[w].pc = "prepClaim" /\ run[w].i = 0 /\ run[w].k = 1
        /\ \E i \in DOMAIN merkle_claims :
              Row(i).status = "failed" /\ Row(i).attempts >= maxRetries

\* C9: a claim that a pass marked submitted and then settled has had its
\* attempts counter raised by exactly 1 in that pass.
C9_OneAttemptPerPass ==
    \A w \in Workers :
        LET me == run[w]
        IN  me.pc \in {"markConfirmed", "markFailed"} =>
                \A j \in 1 .. (me.k - 1) :
                    LET i == me.claimsToProcess[j].index
                    IN  Row(i).attempts = me.attemptsBefore[i] + 1

\* C10: a seeding step leaves every existing record as it is, adds at most
\* the one missing record, in state pending with no attempts, and when the
\* seeding is through every proof has its record.
C10_SeedIdempotent ==
    [][\A w \in Workers :
          run[w].pc = "seed" =>
              /\ \A i \in DOMAIN merkle_claims :
                    i \in DOMAIN merkle_claims' /\ merkle_claims'[i] = Row(i)
              /\ \A i \in DOMAIN merkle_claims' \ DOMAIN merkle_claims :
                    /\ i = run[w].k - 1
                    /\ merkle_claims'[i].status = "pending"
                    /\ merkle_claims'[i].attempts = 0
                    /\ merkle_claims'[i].tx_signature = 0
                    /\ merkle_claims'[i].confirmed_at = 0
                    /\ merkle_claims'[i].wallet = ProofOf(i).wallet
                    /\ merkle_claims'[i].amount = ProofOf(i).amount
              /\ run'[w].pc = "getPending" => DOMAIN merkle_claims' = Indices]_vars

\* C10 witness: seeding runs again over a record that an earlier pass
\* confirmed.
C10_Witness ==
    \E w \in Workers :
        /\ run[w].pc = "seed" /\ run[w].k = 2
        /\ 0 \in DOMAIN merkle_claims
        /\ Row(0).status = "confirmed" /\ Row(0).attempts > 0

\* C11: a closure step of main taken while no claim of the still active
\* distribution is unconfirmed goes on to set the distribution completed,
\* whatever the pass before it processed.
C11_ClosureAfterEveryPass ==
    [][\A w \in Workers :
          Closure(w) /\ distStatus = "active"
              /\ countUnconfirmed(merkle_claims) = 0
              => run'[w].pc = "complete"]_vars

(***************************************************************************)
(* The relayer started on a distribution whose record is in any status:    *)
(* main never reads merkle_distributions.status.                           *)
(***************************************************************************)
DistributionStatus == {"pending", "funded", "active", "completed", "clawedback"}

InitAnyStatus ==
    /\ merkle_claims = EmptyTable
    /\ distStatus \in DistributionStatus
    /\ chain = InitChain({getAssociatedTokenAddressSync(Entries[NumRecipients].wallet)})
    /\ run = [w \in Workers |-> IdleRun]
    /\ call = NoCall

SpecAnyStatus == InitAnyStatus /\ [][Next]_vars

\* C12: the only change a relayer run makes to the distribution's status is
\* active -> completed; a pending, funded or clawed-back distribution keeps
\* its status and a completed one stays completed.
C12_OnlyActiveToCompleted ==
    [][distStatus' # distStatus
          => distStatus = "active" /\ distStatus' = "completed"]_vars

\* C13: in every state a claim record has confirmed_at set exactly when its
\* state is confirmed, and no step writes confirmed_at of a record that has
\* it set already.
C13_ConfirmedAtIffConfirmed ==
    /\ [](\A i \in DOMAIN merkle_claims :
              Row(i).confirmed_at # 0 <=> Row(i).status = "confirmed")
    /\ [][\A i \in DOMAIN merkle_claims :
              Row(i).confirmed_at # 0
                  => merkle_claims'[i].confirmed_at = Row(i).confirmed_at]_vars

(***************************************************************************)
(* The vault holds any amount up to the committed total (funded in full,   *)
(* under-funded, or funds taken back by the authority).                    *)
(***************************************************************************)
InitAnyVault ==
    /\ merkle_claims = EmptyTable
    /\ distStatus = "active"
    /\ \E vault \in 0 .. artifact.totalAmount :
          chain = [InitChain({getAssociatedTokenAddressSync(Entries[NumRecipients].wallet)})
                      EXCEPT !.vault = vault]
    /\ run = [w \in Workers |-> IdleRun]
    /\ call = NoCall

SpecAnyVault == InitAnyVault /\ [][Next]_vars

\* C14: when the relayer is through with a batch whose transaction failed
\* with InsufficientFunds, the records of the batch's claims are what they
\* were before the batch, and the run does not go on to another batch.
C14_InsufficientFundsIsTerminal ==
    [][\A w \in Workers :
          LET me == run[w]
          IN  me.pc = "markFailed" /\ me.lastError = "InsufficientFunds"
                  /\ run'[w].pc \notin {"markFailed", "idle"}
              => /\ \A j \in 1 .. Len(me.claimsToProcess) :
                        LET i == me.claimsToProcess[j].index
                        IN  merkle_claims'[i] = me.rowsBefore[i]
                 /\ run'[w].pc # "prepClaim"]_vars

(***************************************************************************)
(* Artifact/verifier divergence: the root stored on-chain may be the root  *)
(* of another payout list than the one the relayer's artifact was built    *)
(* from, so that the verifier rejects the artifact's proofs.               *)
(***************************************************************************)
OtherRoot ==
    getRoot(buildLayers([k \in 1 .. NumRecipients |->
        constructLeaf(distributionId, Entries[k].wallet, Entries[k].amount + 1)]))

InitAnyRoot ==
    /\ merkle_claims = EmptyTable
    /\ distStatus = "active"
    /\ \E root \in {artifact.merkleRoot, OtherRoot} :
          chain = [InitChain({getAssociatedTokenAddressSync(Entries[NumRecipients].wallet)})
                      EXCEPT !.merkleRoot = root]
    /\ run = [w \in Workers |-> IdleRun]
    /\ call = NoCall

SpecAnyRoot == InitAnyRoot /\ [][Next]_vars

\* A broadcast of the batch transaction by relayer w.
Broadcast(w) == SendConfirmed(w) \/ SendLandsUnconfirmed(w) \/ SendFails(w)

\* C15: once the verifier has rejected a proof of the batch with
\* ProofInvalid the relayer does not broadcast the batch again, builds no
\* claim instruction in a later pass for a claim recorded with that error,
\* and does not go on to the next batch.
C15_ProofInvalidIsTerminal ==
    [][\A w \in Workers :
          LET me == run[w]
          IN  /\ me.lastError = "ProofInvalid" => ~Broadcast(w)
              /\ \A ix \in ClaimIxs(run'[w]) :
                    ix.index \in DOMAIN merkle_claims
                        => Row(ix.index).error_message # "ProofInvalid"
              /\ me.pc = "markFailed" /\ me.lastError = "ProofInvalid"
                    => run'[w].pc # "prepClaim"]_vars

(***************************************************************************)
(* class MerkleTree on its own: a tree is constructed over a sequence of   *)
(* leaf digests, a proof is asked for one index, the proof is verified.    *)
(***************************************************************************)
\* Longest leaf sequence a tree is built from.
MaxLeaves == 6

\* Number of different leaf digests the sequences are drawn from.
NumLeafValues == 2

LeafValues == {constructLeaf(distributionId, v, v) : v \in 1 .. NumLeafValues}

LeafSequences == UNION {[1 .. n -> LeafValues] : n \in 1 .. MaxLeaves}

InitTree ==
    /\ merkle_claims = EmptyTable
    /\ distStatus = "active"
    /\ chain = InitChain({})
    /\ run = [w \in Workers |-> IdleRun]
    /\ \E leaves \in LeafSequences :
          call = [op |-> "leaves", leaves |-> leaves, layers |-> <<>>,
                  index |-> 0, proof |-> <<>>, valid |-> FALSE]

\* new MerkleTree(leaves)
TreeConstruct ==
    /\ call.op = "leaves"
    /\ call' = [call EXCEPT !.op = "tree", !.layers = buildLayers(call.leaves)]
    /\ UNCHANGED <<merkle_claims, distStatus, chain, run>>

\* tree.getProof(index)
TreeGetProof ==
    /\ call.op = "tree"
    /\ \E index \in 0 .. (Len(call.leaves) - 1) :
          call' = [call EXCEPT !.op = "proof", !.index = index,
                               !.proof = getProof(call.layers, index)]
    /\ UNCHANGED <<merkle_claims, distStatus, chain, run>>

\* MerkleTree.verify(tree.getRoot(), leaf, proof)
TreeVerify ==
    /\ call.op = "proof"
    /\ call' = [call EXCEPT !.op = "verified",
                            !.valid = verify(getRoot(call.layers),
                                             call.leaves[call.index + 1],
                                             call.proof)]
    /\ UNCHANGED <<merkle_claims, distStatus, chain, run>>

NextTree == TreeConstruct \/ TreeGetProof \/ TreeVerify

SpecTree == InitTree /\ [][NextTree]_vars

\* C16: the proof getProof emits for an index folds, by the verifier's
\* loop, from the leaf at that index to the root of the tree, and verify
\* accepts it; for one leaf the proof is empty and the root is the leaf.
C16_ProofFoldsToRoot ==
    /\ call.op \in {"proof", "verified"} =>
          /\ fold(call.leaves[call.index + 1], call.proof) = getRoot(call.layers)
          /\ Len(call.leaves) = 1 =>
                call.proof = <<>> /\ getRoot(call.layers) = call.leaves[1]
    /\ call.op = "verified" => call.valid

\* C16 witness: the proof of the last leaf of a five-leaf tree (odd at two
\* levels) has been verified.
C16_Witness ==
    /\ call.op = "verified" /\ call.valid
    /\ Len(call.leaves) = 5 /\ call.index = 4

(***************************************************************************)
(* loadArtifact / validateArtifact: the artifact file written by the       *)
(* builder is altered before the relayer loads and validates it.           *)
(***************************************************************************)
\* Number of alterations made to the artifact file before it is loaded.
MaxAlterations == 2

\* BigInt.prototype.toString: the decimal digits of n.
RECURSIVE toString(_)
toString(n) == IF n < 10 THEN <<n>> ELSE toString(n \div 10) \o <<n % 10>>

\* The artifact as the builder saved it: totalAmount is a decimal string.
SavedArtifact ==
    [ distributionId |-> artifact.distributionId,
      merkleRoot     |-> artifact.merkleRoot,
      mint           |-> "mint",
      totalAmount    |-> toString(artifact.totalAmount),
      numRecipients  |-> artifact.numRecipients,
      proofs         |-> artifact.proofs ]

validateArtifact(a) ==
    LET proofTotal == SumAmounts(a.proofs)
        errors ==
            (IF a.distributionId = 0 THEN <<"Missing distributionId">> ELSE <<>>)
         \o (IF a.merkleRoot = <<>> THEN <<"Missing merkleRoot">> ELSE <<>>)
         \o (IF a.mint = "" THEN <<"Missing mint">> ELSE <<>>)
         \o (IF Len(a.proofs) = 0 THEN <<"Missing or empty proofs">> ELSE <<>>)
         \o (IF toString(proofTotal) # a.totalAmount
             THEN <<"Total mismatch">> ELSE <<>>)
         \o (IF Len(a.proofs) # a.numRecipients
             THEN <<"Recipient count mismatch">> ELSE <<>>)
    IN  [valid |-> errors = <<>>, errors |-> errors]

InitValidate ==
    /\ merkle_claims = EmptyTable
    /\ distStatus = "active"
    /\ chain = InitChain({})
    /\ run = [w \in Workers |-> IdleRun]
    /\ call = [op |-> "saved", artifact |-> SavedArtifact, alterations |-> 0,
               valid |-> FALSE, errors |-> <<>>]

Altered(a) ==
    /\ call.op = "saved"
    /\ call.alterations < MaxAlterations
    /\ call' = [call EXCEPT !.artifact = a, !.alterations = @ + 1]
    /\ UNCHANGED <<merkle_claims, distStatus, chain, run>>

AlterIndex ==
    \E k \in 1 .. Len(call.artifact.proofs), index \in IndexSpace :
        /\ index # call.artifact.proofs[k].index
        /\ Altered([call.artifact EXCEPT !.proofs[k].index = index])

AlterProofNode ==
    \E k \in 1 .. Len(call.artifact.proofs) :
        \E j \in 1 .. Len(call.artifact.proofs[k].proof), node \in TreeNodes :
            /\ node # call.artifact.proofs[k].proof[j]
            /\ Altered([call.artifact EXCEPT !.proofs[k].proof[j] = node])

AlterAmount ==
    \E k \in 1 .. Len(call.artifact.proofs), amount \in Amounts :
        /\ amount # call.artifact.proofs[k].amount
        /\ Altered([call.artifact EXCEPT !.proofs[k].amount = amount])

AlterTotal ==
    \E total \in 1 .. (artifact.totalAmount + 1) :
        /\ toString(total) # call.artifact.totalAmount
        /\ Altered([call.artifact EXCEPT !.totalAmount = toString(total)])

AlterCount ==
    \E count \in {call.artifact.numRecipients - 1, call.artifact.numRecipients + 1} :
        Altered([call.artifact EXCEPT !.numRecipients = count])

DropProof ==
    /\ Len(call.artifact.proofs) > 0
    /\ Altered([call.artifact EXCEPT
                   !.proofs = SubSeq(@, 1, Len(@) - 1)])

\* validateArtifact(loadArtifact(artifactPath))
Validate ==
    /\ call.op = "saved"
    /\ LET validation == validateArtifact(call.artifact)
       IN  call' = [call EXCEPT !.op = "validated",
                                !.valid = validation.valid,
                                !.errors = validation.errors]
    /\ UNCHANGED <<merkle_claims, distStatus, chain, run>>

NextValidate ==
    \/ AlterIndex \/ AlterProofNode \/ AlterAmount \/ AlterTotal
    \/ AlterCount \/ DropProof \/ Validate

SpecValidate == InitValidate /\ [][NextValidate]_vars

\* The proof indices are a dense permutation of [0, numRecipients).
DenseIndices(a) ==
    {a.proofs[k].index : k \in 1 .. Len(a.proofs)} = 0 .. (a.numRecipients - 1)

\* Every proof folds from the leaf of its entry to the artifact's root.
ProofsFold(a) ==
    \A k \in 1 .. Len(a.proofs) :
        verify(a.merkleRoot,
               constructLeaf(a.distributionId, a.proofs[k].wallet,
                             a.proofs[k].amount),
               a.proofs[k].proof)

\* C17: validateArtifact reports invalid every artifact whose proof count
\* differs from numRecipients, whose amounts do not sum to totalAmount,
\* whose indices are not a dense permutation, or one of whose proofs no
\* longer folds to merkleRoot.
C17_ValidateRejectsBroken ==
    call.op = "validated" =>
        LET a == call.artifact
        IN  \/ Len(a.proofs) # a.numRecipients
            \/ toString(SumAmounts(a.proofs)) # a.totalAmount
            \/ ~DenseIndices(a)
            \/ ~ProofsFold(a)
            => ~call.valid

(***************************************************************************)
(* Artifact builder: parseCsv, generateDistributionId and                  *)
(* buildDistributionArtifact.  Strings and buffers are sequences of bytes. *)
(***************************************************************************)
\* Buffer.from('L33_DIST_V1')
DIST_DOMAIN == <<76, 51, 51, 95, 68, 73, 83, 84, 95, 86, 49>>

\* buf.writeBigUInt64LE(totalAmount) on an 8-byte buffer
RECURSIVE writeUIntLE(_, _)
writeUIntLE(n, byteLength) ==
    IF byteLength = 0 THEN <<>>
    ELSE <<n % 256>> \o writeUIntLE(n \div 256, byteLength - 1)

writeBigUInt64LE(n) == writeUIntLE(n, 8)

\* createHash('sha256').update(data).digest('hex'), collision-free
sha256(data) == <<"sha256", data>>

generateDistributionId(rewardId, windowId, mint, totalAmount) ==
    sha256(DIST_DOMAIN \o rewardId \o windowId \o mint
           \o writeBigUInt64LE(totalAmount))

\* Longest payout file (data lines of the CSV).
MaxLines == 2

\* Largest amount written in a payout line.
MaxAmount == 2

\* reward_id, window_id and the mints of the payout lines.
CsvRewardId == <<82>>

CsvWindowId == <<87>>

CsvMints == {<<77>>, <<78>>}

\* A data line after the split into columns; wallet 0 is the empty string.
CsvLines ==
    [wallet : 0 .. 2, mint : CsvMints, amount : 0 .. MaxAmount,
     rewardId : {CsvRewardId}, windowId : {CsvWindowId}]

\* parseCsv: the lines that have a wallet and an amount above zero.
parseCsv(lines) ==
    SelectSeq(lines, LAMBDA entry : entry.wallet # 0 /\ entry.amount > 0)

\* buildMerkleData(distributionId, entries)
buildMerkleData(distId, entries) ==
    LET leaves == [k \in 1 .. Len(entries) |->
                      constructLeaf(distId, entries[k].wallet, entries[k].amount)]
        layers == buildLayers(leaves)
    IN  [ root   |-> getRoot(layers),
          proofs |-> [k \in 1 .. Len(entries) |->
                        [ index  |-> k - 1,
                          wallet |-> entries[k].wallet,
                          amount |-> entries[k].amount,
                          proof  |-> getProof(layers, k - 1) ]] ]

NoArtifact == [numRecipients |-> 0]

Thrown(message) == [error |-> message, artifact |-> NoArtifact]

buildDistributionArtifact(lines) ==
    LET entries == parseCsv(lines)
        mints == {entries[k].mint : k \in 1 .. Len(entries)}
        totalAmount == SumAmounts(entries)
        id == generateDistributionId(entries[1].rewardId, entries[1].windowId,
                                     entries[1].mint, totalAmount)
        data == buildMerkleData(id, entries)
    IN  IF Len(entries) = 0 THEN Thrown("No valid payout entries in CSV")
        ELSE IF Cardinality(mints) # 1 THEN Thrown("Expected single mint")
        ELSE [ error |-> "none",
               artifact |->
                 [ distributionId |-> id,
                   rewardId       |-> entries[1].rewardId,
                   windowId       |-> entries[1].windowId,
                   mint           |-> entries[1].mint,
                   totalAmount    |-> toString(totalAmount),
                   merkleRoot     |-> data.root,
                   numRecipients  |-> Len(entries),
                   proofs         |-> data.proofs ] ]

InitBuild ==
    /\ merkle_claims = EmptyTable
    /\ distStatus = "active"
    /\ chain = InitChain({})
    /\ run = [w \in Workers |-> IdleRun]
    /\ call = [op |-> "csv", lines |-> <<>>, result |-> Thrown("none")]

\* buildDistributionArtifact(csvPath)
Build ==
    /\ call.op = "csv"
    /\ call' = [call EXCEPT !.op = "built",
                            !.result = buildDistributionArtifact(call.lines)]
    /\ UNCHANGED <<merkle_claims, distStatus, chain, run>>

\* A payout line is written to the file before the build.
AppendLine ==
    /\ call.op = "csv"
    /\ Len(call.lines) < MaxLines
    /\ \E line \in CsvLines : call' = [call EXCEPT !.lines = Append(@, line)]
    /\ UNCHANGED <<merkle_claims, distStatus, chain, run>>

NextBuild == Build \/ AppendLine

SpecBuild == InitBuild /\ [][NextBuild]_vars

\* C18: a build from a payout file that holds a line with a wallet and a
\* zero amount ends in an error and produces no artifact.
C18_ZeroAmountRejected ==
    call.op = "built"
        /\ (\E k \in 1 .. Len(call.lines) :
                call.lines[k].wallet # 0 /\ call.lines[k].amount = 0)
        => /\ call.result.error # "none"
           /\ call.result.artifact = NoArtifact

(***************************************************************************)
(* generateDistributionId on two (reward_id, window_id, mint, total)       *)
(* tuples.                                                                 *)
(***************************************************************************)
\* Longest reward_id and window_id, in characters.
MaxIdLength == 2

\* Non-empty identifiers written with the one character 'A'.
IdStrings == UNION {[1 .. n -> {65}] : n \in 1 .. MaxIdLength}

IdTuples ==
    [rewardId : IdStrings, windowId : IdStrings, mint : CsvMints,
     totalAmount : 1 .. MaxAmount]

InitDistId ==
    /\ merkle_claims = EmptyTable
    /\ distStatus = "active"
    /\ chain = InitChain({})
    /\ run = [w \in Workers |-> IdleRun]
    /\ \E a \in IdTuples, b \in IdTuples :
          call = [op |-> "tuples", a |-> a, b |-> b, idA |-> <<>>, idB |-> <<>>]

GenerateDistributionIds ==
    /\ call.op = "tuples"
    /\ call' = [call EXCEPT
                  !.op = "ids",
                  !.idA = generateDistributionId(call.a.rewardId, call.a.windowId,
                                                 call.a.mint, call.a.totalAmount),
                  !.idB = generateDistributionId(call.b.rewardId, call.b.windowId,
                                                 call.b.mint, call.b.totalAmount)]
    /\ UNCHANGED <<merkle_claims, distStatus, chain, run>>

SpecDistId == InitDistId /\ [][GenerateDistributionIds]_vars

\* C19: two tuples that differ in a component get different distribution
\* ids.
C19_DistributionIdInjective ==
    call.op = "ids" => (call.a # call.b => call.idA # call.idB)

\* The least k with 2^k >= n.
RECURSIVE CeilLog2(_)
CeilLog2(n) == IF n <= 1 THEN 0 ELSE 1 + CeilLog2((n + 1) \div 2)

\* C20: the proof getProof emits for any index of a tree of n leaves has
\* ceil(log2(n)) nodes when n > 1 and none when n = 1.
C20_ProofLength ==
    call.op \in {"proof", "verified"} =>
        Len(call.proof) = IF Len(call.leaves) = 1 THEN 0
                          ELSE CeilLog2(Len(call.leaves))

\* C20 witness: a proof of three nodes was emitted for the last leaf of a
\* five-leaf tree.
C20_Witness ==
    /\ call.op = "proof" /\ Len(call.leaves) = 5 /\ call.index = 4
    /\ Len(call.proof) = 3

\* C21: when the transaction of a batch is acquired a blockhash or is
\* broadcast, every claim it carries is recorded submitted; a claim of the
\* batch is recorded confirmed only after a broadcast returned a signature,
\* and recorded failed only after maxRetries broadcasts failed.
C21_SubmittedBeforeBroadcast ==
    \A w \in Workers :
        LET me == run[w]
            n == Len(me.claimsToProcess)
            row(j) == Row(me.claimsToProcess[j].index)
        IN  /\ me.pc \in {"blockhash", "send"} =>
                \A j \in 1 .. n : row(j).status = "submitted"
            /\ me.pc = "markSubmitted" =>
                \A j \in 1 .. n :
                    IF j < me.k THEN row(j).status = "submitted"
                    ELSE row(j) = me.rowsBefore[me.claimsToProcess[j].index]
            /\ me.pc = "markConfirmed" =>
                /\ me.signature # 0
                /\ \A j \in 1 .. n :
                      row(j).status = IF j < me.k THEN "confirmed" ELSE "submitted"
            /\ me.pc = "markFailed" =>
                /\ me.attempts = maxRetries /\ me.signature = 0
                /\ \A j \in 1 .. n :
                      row(j).status = IF j < me.k THEN "failed" ELSE "submitted"

\* C21 witness: a transaction carrying two claims, both recorded submitted,
\* is about to be broadcast for the first time.
C21_Witness ==
    \E w \in Workers :
        /\ run[w].pc = "send" /\ run[w].attempts = 0
        /\ Len(run[w].claimsToProcess) = 2
        /\ \A j \in 1 .. 2 :
              Row(run[w].claimsToProcess[j].index).status = "submitted"

\* C22: a batch is broadcast at most maxRetries times; after a broadcast was
\* confirmed the batch is not broadcast again and, when the relayer leaves
\* the batch, every claim of it is confirmed with that transaction's
\* signature; when all maxRetries broadcasts failed every claim of it is
\* failed with the last error.
C22_RetryOutcome ==
    [][\A w \in Workers :
          LET me == run[w]
              settled(status) ==
                  \A j \in 1 .. Len(me.claimsToProcess) :
                      LET i == me.claimsToProcess[j].index
                      IN  /\ merkle_claims'[i].status = status
                          /\ status = "confirmed"
                                => merkle_claims'[i].tx_signature = me.signature
                          /\ status = "failed"
                                => merkle_claims'[i].error_message = me.lastError
          IN  /\ Broadcast(w) => me.attempts < maxRetries /\ me.signature = 0
              /\ me.pc \in {"markConfirmed", "markFailed"}
                    /\ run'[w].pc \in {"prepClaim", "closure"}
                    => IF me.signature # 0 THEN settled("confirmed")
                       ELSE me.attempts = maxRetries /\ settled("failed")]_vars

\* C23: in the instruction list of a batch the two compute-budget
\* instructions come first and nowhere else; a claim whose token account was
\* found missing has the create-account instruction of that account
\* immediately before it, a claim whose account was found has none, and
\* every create-account instruction stands immediately before its claim.
C23_InstructionOrder ==
    \A w \in Workers :
        LET ixs == run[w].instructions
        IN  ixs # <<>> =>
            /\ Len(ixs) >= 2
            /\ ixs[1] = setComputeUnitLimit /\ ixs[2] = setComputeUnitPrice
            /\ \A n \in 3 .. Len(ixs) :
                  /\ ixs[n].kind \in {"claim", "createAta"}
                  /\ ixs[n].kind = "claim" =>
                        IF ixs[n].index \in run[w].ataMissing
                        THEN ixs[n - 1] =
                                createAssociatedTokenAccountInstruction(ixs[n].recipient)
                        ELSE ixs[n - 1].kind # "createAta"
                  /\ ixs[n].kind = "createAta" =>
                        /\ n < Len(ixs)
                        /\ ixs[n + 1].kind = "claim"
                        /\ ixs[n + 1].recipient = ixs[n].recipient

\* C23 witness: a transaction about to be broadcast carries a claim with its
\* create-account instruction and a claim without one.
C23_Witness ==
    \E w \in Workers :
        LET ixs == run[w].instructions
        IN  /\ run[w].pc = "send" /\ Len(ixs) = 5
            /\ ixs[3].kind = "createAta" /\ ixs[4].kind = "claim"
            /\ ixs[5].kind = "claim"

(***************************************************************************)
(* Two relayer processes started on the same distribution.  No RPC call    *)
(* throws, no confirmation is lost and no process is killed: the only      *)
(* source of interference is the other process.  Both processes are        *)
(* started before any claim of the distribution has been attempted.        *)
(***************************************************************************)
ConcurrentWorkers == {1, 2}

StartConcurrentRun(w) ==
    /\ \A i \in DOMAIN merkle_claims : merkle_claims[i].attempts = 0
    /\ StartRun(w)

InitConcurrent ==
    /\ merkle_claims = EmptyTable
    /\ distStatus = "active"
    /\ chain = InitChain({getAssociatedTokenAddressSync(Entries[NumRecipients].wallet)})
    /\ run = [w \in ConcurrentWorkers |-> IdleRun]
    /\ call = NoCall

NextConcurrent ==
    \E w \in ConcurrentWorkers :
        \/ StartConcurrentRun(w) \/ SeedInsert(w) \/ GetPendingClaims(w)
        \/ PrepClaimAccount(w) \/ PrepConfirm(w) \/ PrepAta(w)
        \/ MarkSubmitted(w) \/ GetLatestBlockhash(w)
        \/ SendConfirmed(w) \/ SendFails(w)
        \/ MarkConfirmed(w) \/ MarkFailed(w)
        \/ Closure(w) \/ CompleteDistribution(w)

SpecConcurrent == InitConcurrent /\ [][NextConcurrent]_vars

\* C24: with two relayer processes on one distribution, no step moves a
\* confirmed record to another state, and whenever both processes have
\* ended no record whose marker exists on-chain is failed or submitted.
C24_ConcurrentRunsKeepConfirmed ==
    /\ [][\A i \in DOMAIN merkle_claims :
              Row(i).status = "confirmed"
                  => merkle_claims'[i].status \notin {"submitted", "failed"}]_vars
    /\ [](( \A w \in ConcurrentWorkers : run[w].pc = "idle")
             => \A i \in DOMAIN merkle_claims :
                   i \in Marked(chain)
                       => Row(i).status \notin {"submitted", "failed"})

\* C25: once a broadcast of the batch transaction returned its signature
\* (the transaction is confirmed on-chain), the relayer makes no further
\* broadcast of that transaction and marks no claim of the batch failed,
\* also when a store update throws while the claims are marked confirmed.
C25_ConfirmedBatchIsSettled ==
    [][\A w \in Workers :
          run[w].signature # 0 => ~ (Broadcast(w) \/ MarkFailed(w))]_vars

\* C26: in every reachable state every claim record has
\* attempts <= max_attempts.
C26_AttemptsBounded ==
    \A i \in DOMAIN merkle_claims : Row(i).attempts <= maxRetries

(***************************************************************************)
(* A payout list in which two lines name the same wallet.  parseCsv keeps  *)
(* both lines (it filters on wallet and amount only) and the builder makes *)
(* one leaf per line, so the artifact holds two proofs for one wallet.     *)
(* The relayer is the one of Spec, reading this artifact.                  *)
(***************************************************************************)
SharedEntries == <<[wallet |-> 1, amount |-> 1], [wallet |-> 1, amount |-> 2]>>

SharedLayers ==
    buildLayers([k \in 1 .. Len(SharedEntries) |->
                    constructLeaf(distributionId, SharedEntries[k].wallet,
                                  SharedEntries[k].amount)])

sharedArtifact ==
    [ distributionId |-> distributionId,
      merkleRoot     |-> getRoot(SharedLayers),
      numRecipients  |-> Len(SharedEntries),
      totalAmount    |-> SumAmounts(SharedEntries),
      proofs         |-> [k \in 1 .. Len(SharedEntries) |->
                            [ index  |-> k - 1,
                              wallet |-> SharedEntries[k].wallet,
                              amount |-> SharedEntries[k].amount,
                              proof  |-> getProof(SharedLayers, k - 1) ]] ]

\* The distribution of sharedArtifact initialised on-chain; the wallet's
\* token account exists or not.
InitSharedWallet ==
    /\ merkle_claims = EmptyTable
    /\ distStatus = "active"
    /\ \E atas \in SUBSET {getAssociatedTokenAddressSync(SharedEntries[1].wallet)} :
          chain = [InitChain(atas) EXCEPT
                      !.merkleRoot = sharedArtifact.merkleRoot,
                      !.vault = sharedArtifact.totalAmount]
    /\ run = [w \in Workers |-> IdleRun]
    /\ call = NoCall

\* One iteration of initializeClaimsFromArtifact over sharedArtifact.
SeedInsertShared(w) ==
    LET me == run[w]
    IN  /\ me.pc = "seed"
        /\ merkle_claims' = InsertClaim(merkle_claims, sharedArtifact.proofs[me.k])
        /\ run' = [run EXCEPT ![w] =
                      IF me.k < Len(sharedArtifact.proofs)
                      THEN [me EXCEPT !.k = @ + 1]
                      ELSE [me EXCEPT !.pc = "getPending", !.k = 0]]
        /\ UNCHANGED <<call, distStatus, chain>>

\* processDistribution up to the batch loop, over sharedArtifact.
GetPendingClaimsShared(w) ==
    LET me == run[w]
        pendingIndices == PendingIndices(merkle_claims)
        pendingClaims ==
            SelectSeq(sharedArtifact.proofs,
                      LAMBDA proof : proof.index \in pendingIndices)
        started == [me EXCEPT
                      !.pendingClaims = pendingClaims,
                      !.attemptsBefore =
                          [i \in DOMAIN merkle_claims |-> merkle_claims[i].attempts],
                      !.rowsBefore = merkle_claims,
                      !.markersBefore = Marked(chain)]
    IN  /\ me.pc = "getPending"
        /\ run' = [run EXCEPT ![w] = LoopBatches(started, 0)]
        /\ UNCHANGED <<call, merkle_claims, distStatus, chain>>

NextSharedWallet ==
    \E w \in Workers :
        \/ StartRun(w) \/ SeedInsertShared(w) \/ GetPendingClaimsShared(w)
        \/ PrepClaimAccount(w) \/ PrepConfirm(w) \/ PrepAta(w)
        \/ RpcThrows(w) \/ MarkSubmitted(w) \/ GetLatestBlockhash(w)
        \/ SendConfirmed(w) \/ SendLandsUnconfirmed(w) \/ SendFails(w)
        \/ MarkConfirmed(w) \/ MarkFailed(w)
        \/ Closure(w) \/ CompleteDistribution(w) \/ Crash(w)

SpecSharedWallet == InitSharedWallet /\ [][NextSharedWallet]_vars

\* C27: the instruction list of a batch never holds two create-account
\* instructions for the same token account, also when two claims of the
\* batch name the same wallet.
C27_OneCreatePerAccount ==
    \A w \in Workers :
        LET ixs == run[w].instructions
        IN  \A m, n \in 1 .. Len(ixs) :
               /\ ixs[m].kind = "createAta" /\ ixs[n].kind = "createAta"
               /\ getAssociatedTokenAddressSync(ixs[m].recipient)
                     = getAssociatedTokenAddressSync(ixs[n].recipient)
               => m = n

\* C28: when a relayer run sets the distribution's status to completed,
\* every claim record of the distribution is confirmed and the claim
\* account (uniqueness marker) of each of them exists on-chain.
C28_CompletedMeansAllClaimed ==
    [][\A w \in Workers :
          CompleteDistribution(w) =>
              \A i \in DOMAIN merkle_claims :
                  /\ Row(i).status = "confirmed"
                  /\ i \in Marked(chain)]_vars

(***************************************************************************)
(* The relayer whose RPC and store calls may throw anywhere in             *)
(* processDistribution, scheduled fairly: every await of the running       *)
(* process returns or throws, so the process always takes its next step.   *)
(***************************************************************************)
NextFaulty ==
    \E w \in Workers :
        \/ StartRun(w) \/ SeedInsert(w) \/ GetPendingClaims(w)
        \/ PrepClaimAccount(w) \/ PrepConfirm(w) \/ PrepAta(w)
        \/ RpcThrows(w) \/ MarkSubmitted(w) \/ GetLatestBlockhash(w)
        \/ SendConfirmed(w) \/ SendLandsUnconfirmed(w) \/ SendFails(w)
        \/ MarkConfirmed(w) \/ MarkFailed(w)
        \/ Closure(w) \/ CompleteDistribution(w)
        \/ MainQueryThrows(w) \/ UpdateThrows(w) \/ MarkConfirmedThrows(w)

SpecFaultyFair == Init /\ [][NextFaulty]_vars /\ WF_vars(NextFaulty)

\* Math.ceil(pendingClaims.length / batchSize)
totalBatches(n) == (n + batchSize - 1) \div batchSize

InBatch(me) ==
    me.pc \in {"prepClaim", "prepConfirm", "prepAta", "markSubmitted",
               "blockhash", "send", "markConfirmed", "markFailed"}

\* C29: whatever RPC and store calls fail, a processDistribution call over
\* n pending claims ends; its batches are the consecutive slices of at most
\* batchSize claims, each claim in exactly one; it makes at most
\* ceil(n / batchSize) * maxRetries broadcasts; a batch that throws is
\* counted failed and the next batch is processed; and on return
\* processed + failed + skipped = n.
C29_ProcessDistributionTerminates ==
    /\ [](\A w \in Workers :
            LET me == run[w]
                n == Len(me.pendingClaims)
            IN  /\ me.broadcasts <= totalBatches(n) * maxRetries
                /\ InBatch(me) =>
                      /\ me.i % batchSize = 0 /\ me.i < n
                      /\ Len(BatchOf(me)) \in 1 .. batchSize
                      /\ me.processed + me.failed + me.skipped = me.i
                /\ me.pc = "closure" =>
                      /\ me.i >= n
                      /\ me.processed + me.failed + me.skipped = n)
    /\ [][\A w \in Workers :
            LET me == run[w]
                n == Len(me.pendingClaims)
            IN  /\ InBatch(me) /\ run'[w].pc # "idle" /\ run'[w].i # me.i
                      => run'[w].i = me.i + batchSize
                /\ RpcThrows(w) \/ UpdateThrows(w) =>
                      /\ run'[w].failed = me.failed + Len(BatchOf(me))
                      /\ run'[w].pc = IF me.i + batchSize < n
                                      THEN "prepClaim" ELSE "closure"]_vars
    /\ \A w \in Workers :
          (run[w].pc = "getPending") ~> (run[w].pc \in {"closure", "idle"})

\* A pass of two batches returns after one batch threw and one was paid.
C29_Witness ==
    \E w \in Workers :
        /\ run[w].pc = "closure"
        /\ Len(run[w].pendingClaims) > batchSize
        /\ ~ run[w].clean
        /\ run[w].processed > 0 /\ run[w].failed > 0
        /\ run[w].broadcasts > 0

(***************************************************************************)
(* RPC failover (src/utils/rpc.ts).  The module-level state is shared by   *)
(* every call of the process; the configuration is read once from the      *)
(* environment.  Date.now() is the field now, in milliseconds; time passes *)
(* while an operation or a sleep is awaited.  lastFailoverTime 0 stands    *)
(* for null.                                                               *)
(***************************************************************************)
PRIMARY_RECOVERY_INTERVAL_MS == 300000

rpcMaxRetries == 3

retryDelayMs == 1000

\* Calls of withFailover made by the process, and operation invocations of
\* one call, that the model follows.
MaxCalls == 2

MaxInvocations == 7

\* How long an awaited operation may take: a moment, or longer than the
\* recovery interval.
OperationDurations == {1, PRIMARY_RECOVERY_INTERVAL_MS + 1}

RpcStateInit == [primaryHealthy |-> TRUE, lastFailoverTime |-> 0, failoverCount |-> 0]

\* getActiveRpcUrl(config): the url, and the state it leaves.
getActiveRpcUrl(config, state, now) ==
    IF state.primaryHealthy THEN [url |-> "primary", state |-> state]
    ELSE IF config.backupUrl
    THEN IF state.lastFailoverTime # 0
            /\ now - state.lastFailoverTime > PRIMARY_RECOVERY_INTERVAL_MS
         THEN [url |-> "primary", state |-> [state EXCEPT !.primaryHealthy = TRUE]]
         ELSE [url |-> "backup", state |-> state]
    ELSE [url |-> "primary", state |-> state]

markPrimaryFailed(config, state, now) ==
    IF state.primaryHealthy /\ config.backupUrl
    THEN [primaryHealthy |-> FALSE, lastFailoverTime |-> now,
          failoverCount |-> state.failoverCount + 1]
    ELSE state

markPrimaryRecovered(state) ==
    IF ~ state.primaryHealthy THEN [state EXCEPT !.primaryHealthy = TRUE] ELSE state

InitFailover ==
    /\ merkle_claims = EmptyTable
    /\ distStatus = "active"
    /\ chain = InitChain({})
    /\ run = [w \in Workers |-> IdleRun]
    /\ \E backupUrl \in BOOLEAN :
          call = [op |-> "rpc", config |-> [backupUrl |-> backupUrl],
                  state |-> RpcStateInit, now |-> 1, pc |-> "idle",
                  attempts |-> 0, url |-> "primary", lastError |-> NULL,
                  outcome |-> "none",
                  \* bookkeeping, not program state:
                  calls |-> 0,             \* calls of withFailover so far
                  invocations |-> 0,       \* operation invocations of the call
                  entry |-> RpcStateInit]  \* state when the call began

\* withFailover is called: let attempts = 0.
CallWithFailover ==
    /\ call.op = "rpc" /\ call.pc = "idle"
    /\ call.calls < MaxCalls
    /\ call' = [call EXCEPT !.pc = "loop", !.attempts = 0, !.lastError = NULL,
                            !.outcome = "none", !.calls = @ + 1,
                            !.invocations = 0, !.entry = call.state]
    /\ UNCHANGED <<merkle_claims, distStatus, chain, run>>

\* while (attempts < maxRetries): attempts++, createActiveConnection and
\* the operation is invoked; else throw lastError.
WhileAttempts ==
    /\ call.op = "rpc" /\ call.pc = "loop"
    /\ IF call.attempts < rpcMaxRetries
       THEN LET r == getActiveRpcUrl(call.config, call.state, call.now)
            IN  /\ call.invocations < MaxInvocations
                /\ call' = [call EXCEPT !.attempts = @ + 1, !.state = r.state,
                                        !.url = r.url, !.pc = "operation",
                                        !.invocations = @ + 1]
       ELSE call' = [call EXCEPT !.pc = "idle", !.outcome = "thrown"]
    /\ UNCHANGED <<merkle_claims, distStatus, chain, run>>

\* The operation returns: recover the primary when due, return the result.
OperationReturns ==
    /\ call.op = "rpc" /\ call.pc = "operation"
    /\ \E d \in OperationDurations :
          LET now == call.now + d
              state == call.state
          IN  call' = [call EXCEPT
                  !.now = now,
                  !.state = IF ~ state.primaryHealthy /\ state.lastFailoverTime # 0
                               /\ now - state.lastFailoverTime
                                     > PRIMARY_RECOVERY_INTERVAL_MS
                            THEN markPrimaryRecovered(state) ELSE state,
                  !.pc = "idle", !.outcome = "returned"]
    /\ UNCHANGED <<merkle_claims, distStatus, chain, run>>

\* The operation throws: the catch block.
OperationThrows ==
    /\ call.op = "rpc" /\ call.pc = "operation"
    /\ \E d \in OperationDurations, isFailoverableError \in BOOLEAN :
          LET now == call.now + d
              caught == [call EXCEPT !.now = now,
                                     !.lastError = IF isFailoverableError
                                                   THEN "fetch failed"
                                                   ELSE "error"]
          IN  call' =
                 IF isFailoverableError /\ call.config.backupUrl
                    /\ call.state.primaryHealthy
                 THEN [caught EXCEPT
                          !.state = markPrimaryFailed(call.config, call.state, now),
                          !.attempts = 0, !.pc = "loop"]
                 ELSE IF call.attempts < rpcMaxRetries
                 THEN [caught EXCEPT !.pc = "sleep"]
                 ELSE [caught EXCEPT !.pc = "loop"]
    /\ UNCHANGED <<merkle_claims, distStatus, chain, run>>

\* await sleep(retryDelayMs * attempts)
Sleep ==
    /\ call.op = "rpc" /\ call.pc = "sleep"
    /\ call' = [call EXCEPT !.now = @ + retryDelayMs * call.attempts,
                            !.pc = "loop"]
    /\ UNCHANGED <<merkle_claims, distStatus, chain, run>>

NextFailover ==
    CallWithFailover \/ WhileAttempts \/ OperationReturns \/ OperationThrows \/ Sleep

SpecFailover == InitFailover /\ [][NextFailover]_vars

\* C30: a call of withFailover with a backup url invokes the operation at
\* most 2 * maxRetries times, however long the awaited operations take;
\* without a backup url it invokes it at most maxRetries times and the
\* shared failover state stays as it was when the call began.
C30_FailoverBounded ==
    call.op = "rpc" =>
        IF call.config.backupUrl
        THEN call.invocations <= 2 * rpcMaxRetries
        ELSE /\ call.invocations <= rpcMaxRetries
             /\ call.state = call.entry

====
